---- MODULE Spec2Model ----
(***************************************************************************)
(* Model of the Select combobox of src/src/App.jsx (lines 39-258): its     *)
(* React state (query, isOpen, focusedOptionIndex), the derived            *)
(* filteredOptions of each render, the window-level listeners registered   *)
(* by the effect of lines 182-192, and the calls made to onSelect.         *)
(*                                                                         *)
(* A string is a sequence of one-character strings.  Every action is one   *)
(* browser event: the handlers it reaches, the batched state update, the   *)
(* re-render and the effect that re-registers the window listeners.        *)
(***************************************************************************)
EXTENDS Integers, Sequences, FiniteSets, TLC

\* Bounds of the model.
MaxLen == 2
MaxOpts == 2

VARIABLES
  options,             \* the options prop (sequence of strings)
  disabled,            \* the disabled prop
  query,               \* useState("")
  isOpen,              \* useState(false)
  focusedOptionIndex,  \* useState(0), 0-based
  filteredOptions,     \* the filteredOptions of the last render
  listeners,           \* the listeners registered on window, in order
  phase,               \* "mounted", "unmounted" or "crashed" (a render threw)
  hasFocus,            \* the input element has keyboard focus
  lastEvent,           \* the last event, its typed text, the state it found
  calls                \* the arguments onSelect received during the last event

vars == <<options, disabled, query, isOpen, focusedOptionIndex, filteredOptions,
          listeners, phase, hasFocus, lastEvent, calls>>

----------------------------------------------------------------------------
\* Strings

Alphabet == {"A", "a", "b", " "}

Whitespace == {" "}

RECURSIVE StringsOfLen(_)
StringsOfLen(n) ==
  IF n = 0 THEN {<<>>}
  ELSE {Append(s, c) : s \in StringsOfLen(n - 1), c \in Alphabet}

Strings == UNION {StringsOfLen(n) : n \in 0..MaxLen}

\* The texts the user types into the widget.
TypedStrings == {s \in Strings : \A i \in DOMAIN s : s[i] # "A"}

\* The texts the host may pass as options.
OptionWords == {<<"A">>, <<"b">>, <<"a", " ", "b">>}

RECURSIVE ListsOfLen(_)
ListsOfLen(n) ==
  IF n = 0 THEN {<<>>}
  ELSE {Append(l, w) : l \in ListsOfLen(n - 1), w \in OptionWords}

OptionLists == UNION {ListsOfLen(n) : n \in 0..MaxOpts}

\* The value of an out-of-range array read; it is no string.
Undefined == <<"undefined">>

\* String.prototype.toLowerCase
LowerChar(c) == IF c = "A" THEN "a" ELSE IF c = "B" THEN "b" ELSE c

toLowerCase(s) == [i \in 1..Len(s) |-> LowerChar(s[i])]

IsSpace(c) == c \in Whitespace

NotSpace(c) == ~IsSpace(c)

\* s.replace(/\s+/g, "")
replaceWhitespace(s) == SelectSeq(s, NotSpace)

\* String.prototype.includes
includes(s, t) ==
  \E k \in 0..(Len(s) - Len(t)) : SubSeq(s, k + 1, k + Len(t)) = t

\* A plausible slip: the query is not lowercased before the comparison.
optionMatchesCaseSensitiveQuery(option, q) ==
  includes(replaceWhitespace(toLowerCase(option)), replaceWhitespace(q))

optionMatches(option, q) ==
  includes(replaceWhitespace(toLowerCase(option)),
           replaceWhitespace(toLowerCase(q)))

\* Array.prototype.filter with the predicate of lines 101-106
RECURSIVE filter(_, _)
filter(opts, q) ==
  IF opts = <<>> THEN <<>>
  ELSE IF optionMatches(Head(opts), q)
       THEN <<Head(opts)>> \o filter(Tail(opts), q)
       ELSE filter(Tail(opts), q)

\* const filteredOptions = query === "" ? options : options?.filter(...)
computeFilteredOptions(opts, q) ==
  IF q = <<>> THEN opts ELSE filter(opts, q)

\* The render throws when the filter callback reads query.toLowerCase() of an
\* undefined query; the callback runs only when there is an option.
renderThrows(opts, q) == q = Undefined /\ opts # <<>>

\* filteredOptions[i], 0-based
At(list, i) == IF i + 1 \in DOMAIN list THEN list[i + 1] ELSE Undefined

----------------------------------------------------------------------------
\* Handlers.  c is the closure of the render that created the handler (its
\* isOpen, focusedOptionIndex and filteredOptions); st collects the state
\* updates and side effects of the event being handled.

Pending ==
  [query |-> query, isOpen |-> isOpen, focusedOptionIndex |-> focusedOptionIndex,
   hasFocus |-> hasFocus, calls |-> <<>>]

Current ==
  [isOpen |-> isOpen, focusedOptionIndex |-> focusedOptionIndex,
   filteredOptions |-> filteredOptions]

\* A plausible slip: the selection does not close the dropdown.
handleSelectOptionStaysOpen(option, st) ==
  [st EXCEPT !.query = option, !.calls = Append(@, option)]

handleSelectOption(option, st) ==
  [st EXCEPT !.query = option, !.isOpen = FALSE, !.calls = Append(@, option)]

\* A plausible slip: the toggle only ever closes.
handleToggleDropdownOnlyCloses(c, st) ==
  [st EXCEPT !.isOpen = FALSE, !.focusedOptionIndex = 0]

handleToggleDropdown(c, st) ==
  IF ~c.isOpen
  THEN [st EXCEPT !.isOpen = ~c.isOpen, !.hasFocus = TRUE]
  ELSE [st EXCEPT !.isOpen = ~c.isOpen, !.focusedOptionIndex = 0]

\* A plausible slip: typing into a closed widget does not open it.
handleInputChangeStaysClosed(c, value, st) ==
  [st EXCEPT !.query = value, !.focusedOptionIndex = 0]

handleInputChange(c, value, st) ==
  LET st1 == IF ~c.isOpen THEN handleToggleDropdown(c, st) ELSE st
  IN  [st1 EXCEPT !.query = value, !.focusedOptionIndex = 0]

\* A plausible slip: the dismissal closes the dropdown but keeps the text.
clearInputKeepsQuery(st) ==
  [st EXCEPT !.isOpen = FALSE, !.focusedOptionIndex = 0]

clearInput(st) ==
  [st EXCEPT !.query = <<>>, !.isOpen = FALSE, !.focusedOptionIndex = 0]

\* A plausible slip: a panel that is gone counts as not containing the target.
handleClickOutsideNullPanel(e, st) ==
  IF /\ e.inputRef
     /\ e.target # "input"
     /\ (~e.dropdownRef \/ e.target # "option")
  THEN clearInput(st)
  ELSE st

\* A plausible slip: the click on the input is not told from an outside click.
handleClickOutsideIgnoresInput(e, st) ==
  IF e.inputRef /\ e.dropdownRef /\ e.target # "option"
  THEN clearInput(st)
  ELSE st

handleClickOutside(e, st) ==
  IF /\ e.inputRef
     /\ e.target # "input"
     /\ e.dropdownRef
     /\ e.target # "option"
  THEN clearInput(st)
  ELSE st

\* A plausible slip: Escape is honoured only while the dropdown is open.
handleEscapeKeyOnlyOpen(e, st) ==
  IF e.key = "Escape" /\ st.isOpen THEN clearInput(st) ELSE st

handleEscapeKey(e, st) ==
  IF e.key = "Escape" THEN clearInput(st) ELSE st

\* A plausible slip: ArrowDown on the last entry wraps to the first.
handleKeyDownWraps(c, e, st) ==
  IF c.isOpen
  THEN IF e.key = "ArrowDown"
       THEN [st EXCEPT !.focusedOptionIndex =
               IF c.focusedOptionIndex < Len(c.filteredOptions) - 1
               THEN @ + 1 ELSE 0]
       ELSE IF e.key = "ArrowUp" /\ c.focusedOptionIndex > 0
       THEN [st EXCEPT !.focusedOptionIndex = @ - 1]
       ELSE IF e.key = "Enter"
       THEN handleSelectOption(At(c.filteredOptions, c.focusedOptionIndex), st)
       ELSE st
  ELSE st

\* A plausible slip: the isOpen test around the key handling is missing.
handleKeyDownIgnoresOpen(c, e, st) ==
  IF e.key = "ArrowDown" /\ c.focusedOptionIndex < Len(c.filteredOptions) - 1
  THEN [st EXCEPT !.focusedOptionIndex = @ + 1]
  ELSE IF e.key = "ArrowUp" /\ c.focusedOptionIndex > 0
  THEN [st EXCEPT !.focusedOptionIndex = @ - 1]
  ELSE IF e.key = "Enter"
  THEN handleSelectOption(At(c.filteredOptions, c.focusedOptionIndex), st)
  ELSE st

handleKeyDown(c, e, st) ==
  IF c.isOpen
  THEN IF e.key = "ArrowDown" /\ c.focusedOptionIndex < Len(c.filteredOptions) - 1
       THEN [st EXCEPT !.focusedOptionIndex = @ + 1]
       ELSE IF e.key = "ArrowUp" /\ c.focusedOptionIndex > 0
       THEN [st EXCEPT !.focusedOptionIndex = @ - 1]
       ELSE IF e.key = "Enter"
       THEN handleSelectOption(At(c.filteredOptions, c.focusedOptionIndex), st)
       ELSE st
  ELSE st

handleOptionClick(c, index, st) ==
  handleSelectOption(At(c.filteredOptions, index),
                     [st EXCEPT !.focusedOptionIndex = index])

----------------------------------------------------------------------------
\* The window listeners (lines 182-192).

listenerOf(type, fn, c) ==
  [type |-> type, fn |-> fn, isOpen |-> c.isOpen,
   focusedOptionIndex |-> c.focusedOptionIndex,
   filteredOptions |-> c.filteredOptions]

\* The effect body: three addEventListener calls.
addListeners(ls, c) ==
  ls \o << listenerOf("click", "handleClickOutside", c),
           listenerOf("keydown", "handleEscapeKey", c),
           listenerOf("keydown", "handleKeyDown", c) >>

\* The effect's cleanup: it removes the three listeners its run registered,
\* which are the last three registered.
removeListeners(ls) ==
  IF Len(ls) >= 3 THEN SubSeq(ls, 1, Len(ls) - 3) ELSE <<>>

\* The dependency array [isOpen, focusedOptionIndex, filteredOptions], compared
\* with Object.is: filteredOptions is the same array only when both renders
\* returned the options prop itself (query === "").
\* A plausible slip: focusedOptionIndex is missing from the dependency array.
depsChangedWithoutIndex(oldOpen, oldIndex, oldQuery, newOpen, newIndex, newQuery) ==
  \/ oldOpen # newOpen
  \/ ~(oldQuery = <<>> /\ newQuery = <<>>)

depsChanged(oldOpen, oldIndex, oldQuery, newOpen, newIndex, newQuery) ==
  \/ oldOpen # newOpen
  \/ oldIndex # newIndex
  \/ ~(oldQuery = <<>> /\ newQuery = <<>>)

runHandler(l, e, st) ==
  IF l.fn = "handleClickOutside" THEN handleClickOutside(e, st)
  ELSE IF l.fn = "handleEscapeKey" THEN handleEscapeKey(e, st)
  ELSE handleKeyDown(l, e, st)

\* The browser runs every listener registered for the event's type, in the
\* order of registration.
RECURSIVE dispatch(_, _, _)
dispatch(ls, e, st) ==
  IF ls = <<>> THEN st
  ELSE dispatch(Tail(ls), e,
                IF Head(ls).type = e.type THEN runHandler(Head(ls), e, st) ELSE st)

----------------------------------------------------------------------------
\* The end of every event: the updates are applied (ignored when the
\* component is not mounted), the component renders, and the effect runs.

Commit(name, typed, st) ==
  /\ lastEvent' = [name |-> name, wasOpen |-> isOpen, hadQuery |-> query # <<>>,
                   typed |-> typed]
  /\ calls' = st.calls
  /\ hasFocus' = st.hasFocus
  /\ UNCHANGED <<options, disabled>>
  /\ IF phase # "mounted"
     THEN UNCHANGED <<query, isOpen, focusedOptionIndex, filteredOptions,
                      listeners, phase>>
     ELSE /\ query' = st.query
          /\ isOpen' = st.isOpen
          /\ focusedOptionIndex' = st.focusedOptionIndex
          /\ IF renderThrows(options, st.query)
             THEN /\ phase' = "crashed"
                  /\ listeners' = removeListeners(listeners)
                  /\ UNCHANGED filteredOptions
             ELSE /\ UNCHANGED phase
                  /\ filteredOptions' = computeFilteredOptions(options, st.query)
                  /\ listeners' =
                       IF depsChanged(isOpen, focusedOptionIndex, query,
                                      st.isOpen, st.focusedOptionIndex, st.query)
                       THEN addListeners(removeListeners(listeners),
                              [isOpen |-> st.isOpen,
                               focusedOptionIndex |-> st.focusedOptionIndex,
                               filteredOptions |->
                                 computeFilteredOptions(options, st.query)])
                       ELSE listeners

----------------------------------------------------------------------------
\* The dropdown of the returned JSX (lines 226-253): nothing while closed,
\* the notfound text, or one <li> per filtered option, the one at
\* focusedOptionIndex carrying the highlight classes.

\* A plausible slip: the query !== "" test of line 232 is missing.
renderDropdownNotFoundOnEmpty(open, q, list, index) ==
  IF ~open THEN [kind |-> "none"]
  ELSE IF Len(list) = 0 THEN [kind |-> "notfound"]
  ELSE [kind |-> "list",
        items |-> [i \in 1..Len(list) |->
                     [text |-> list[i], highlighted |-> (index = i - 1)]]]

renderDropdown(open, q, list, index) ==
  IF ~open THEN [kind |-> "none"]
  ELSE IF Len(list) = 0 /\ q # <<>> THEN [kind |-> "notfound"]
  ELSE [kind |-> "list",
        items |-> [i \in 1..Len(list) |->
                     [text |-> list[i], highlighted |-> (index = i - 1)]]]

\* What the mounted component shows.
Dropdown ==
  IF phase = "mounted"
  THEN renderDropdown(isOpen, query, filteredOptions, focusedOptionIndex)
  ELSE [kind |-> "none"]

----------------------------------------------------------------------------
\* Events

KeyEvent(key) == [type |-> "keydown", key |-> key]

ClickEvent(target, dropdownRef) ==
  [type |-> "click", target |-> target, inputRef |-> phase = "mounted",
   dropdownRef |-> dropdownRef]

\* A plausible slip: the disabled attribute is not passed to the input.
inputEnabledAlways == TRUE

\* <input disabled={disabled}>: a disabled input takes no focus and fires
\* neither onChange nor onClick.
inputEnabled == ~disabled

\* onChange of the input: the user edits the text of the focused input.
TypeValue(value) ==
  /\ phase = "mounted" /\ inputEnabled /\ hasFocus
  /\ value # query
  /\ Commit("type", value, handleInputChange(Current, value, Pending))

TypeText == \E value \in TypedStrings : TypeValue(value)

\* onClick of the input, then the window click listeners for the same click;
\* the panel may or may not have been committed when the window listener runs.
\* The click reaches the window listeners also when the input is disabled.
ClickInput ==
  /\ phase = "mounted"
  /\ \E ref \in {isOpen, ~isOpen} :
       Commit("clickInput", <<>>,
              dispatch(listeners, ClickEvent("input", ref /\ inputEnabled),
                       IF inputEnabled
                       THEN [handleToggleDropdown(Current, Pending)
                               EXCEPT !.hasFocus = TRUE]
                       ELSE Pending))

\* onClick of a listed option, then the window click listeners; the panel
\* may or may not have been removed when the window listener runs.
\* ref tells whether dropdownRef.current still holds the panel at that time.
ClickOptionAt(index, ref) ==
  /\ phase = "mounted" /\ isOpen
  /\ ~(Len(filteredOptions) = 0 /\ query # <<>>)
  /\ index \in 0..(Len(filteredOptions) - 1)
  /\ Commit("clickOption", <<>>,
            dispatch(listeners, ClickEvent("option", ref),
                     [handleOptionClick(Current, index, Pending)
                        EXCEPT !.hasFocus = FALSE]))

ClickOption ==
  \E index \in 0..(Len(filteredOptions) - 1), ref \in BOOLEAN :
    ClickOptionAt(index, ref)

\* A click outside the input and the panel.
ClickOutside ==
  Commit("clickOutside", <<>>,
         dispatch(listeners, ClickEvent("outside", phase = "mounted" /\ isOpen),
                  [Pending EXCEPT !.hasFocus = FALSE]))

PressEscape == Commit("Escape", <<>>, dispatch(listeners, KeyEvent("Escape"), Pending))

PressEnter == Commit("Enter", <<>>, dispatch(listeners, KeyEvent("Enter"), Pending))

PressArrowDown ==
  Commit("ArrowDown", <<>>, dispatch(listeners, KeyEvent("ArrowDown"), Pending))

PressArrowUp ==
  Commit("ArrowUp", <<>>, dispatch(listeners, KeyEvent("ArrowUp"), Pending))

\* The input gains focus without a click (Tab); the input has no onFocus.
FocusInput ==
  /\ phase = "mounted" /\ inputEnabled /\ ~hasFocus
  /\ Commit("focus", <<>>, [Pending EXCEPT !.hasFocus = TRUE])

\* The parent renders again with the same props.
Rerender ==
  /\ phase = "mounted"
  /\ Commit("rerender", <<>>, Pending)

Unmount ==
  /\ phase = "mounted"
  /\ phase' = "unmounted"
  /\ listeners' = removeListeners(listeners)
  /\ hasFocus' = FALSE
  /\ calls' = <<>>
  /\ lastEvent' = [name |-> "unmount", wasOpen |-> isOpen, hadQuery |-> query # <<>>,
                   typed |-> <<>>]
  /\ UNCHANGED <<options, disabled, query, isOpen, focusedOptionIndex,
                 filteredOptions>>

Mount ==
  /\ phase = "unmounted"
  /\ phase' = "mounted"
  /\ query' = <<>>
  /\ isOpen' = FALSE
  /\ focusedOptionIndex' = 0
  /\ filteredOptions' = computeFilteredOptions(options, <<>>)
  /\ listeners' = addListeners(<<>>,
       [isOpen |-> FALSE, focusedOptionIndex |-> 0,
        filteredOptions |-> computeFilteredOptions(options, <<>>)])
  /\ hasFocus' = FALSE
  /\ calls' = <<>>
  /\ lastEvent' = [name |-> "mount", wasOpen |-> FALSE, hadQuery |-> FALSE,
                 typed |-> <<>>]
  /\ UNCHANGED <<options, disabled>>

Init ==
  /\ options \in OptionLists
  /\ disabled \in BOOLEAN
  /\ query = <<>>
  /\ isOpen = FALSE
  /\ focusedOptionIndex = 0
  /\ filteredOptions = computeFilteredOptions(options, <<>>)
  /\ listeners = addListeners(<<>>,
       [isOpen |-> FALSE, focusedOptionIndex |-> 0,
        filteredOptions |-> computeFilteredOptions(options, <<>>)])
  /\ phase = "mounted"
  /\ hasFocus = FALSE
  /\ calls = <<>>
  /\ lastEvent = [name |-> "mount", wasOpen |-> FALSE, hadQuery |-> FALSE,
                 typed |-> <<>>]

Next ==
  \/ TypeText
  \/ ClickInput
  \/ ClickOption
  \/ ClickOutside
  \/ PressEscape
  \/ PressEnter
  \/ PressArrowDown
  \/ PressArrowUp
  \/ FocusInput
  \/ Rerender
  \/ Unmount
  \/ Mount

Spec == Init /\ [][Next]_vars

----------------------------------------------------------------------------
\* The filter on its own: any option list against any query.

FilterWords ==
  {<<>>, <<"A">>, <<"b">>, <<" ">>, <<"a", " ", "b">>, <<"b", "A">>}

RECURSIVE FilterListsOfLen(_)
FilterListsOfLen(n) ==
  IF n = 0 THEN {<<>>}
  ELSE {Append(l, w) : l \in FilterListsOfLen(n - 1), w \in FilterWords}

FilterLists == UNION {FilterListsOfLen(n) : n \in 0..MaxOpts}

InitFilter ==
  /\ options \in FilterLists
  /\ disabled = FALSE
  /\ query = <<>>
  /\ isOpen = FALSE
  /\ focusedOptionIndex = 0
  /\ filteredOptions = computeFilteredOptions(options, <<>>)
  /\ listeners = <<>>
  /\ phase = "mounted"
  /\ hasFocus = FALSE
  /\ calls = <<>>
  /\ lastEvent = [name |-> "mount", wasOpen |-> FALSE, hadQuery |-> FALSE,
                 typed |-> <<>>]

\* A render with a new query: lines 98-106 alone.
RenderFilter ==
  \E q \in Strings :
    /\ query' = q
    /\ filteredOptions' = computeFilteredOptions(options, q)
    /\ lastEvent' = [name |-> "filter", wasOpen |-> FALSE, hadQuery |-> query # <<>>,
                   typed |-> <<>>]
    /\ UNCHANGED <<options, disabled, isOpen, focusedOptionIndex, listeners,
                   phase, hasFocus, calls>>

NextFilter == RenderFilter

SpecFilter == InitFilter /\ [][NextFilter]_vars

----------------------------------------------------------------------------
\* Properties

Mounted == phase = "mounted"

OptionSet == {options[i] : i \in DOMAIN options}

\* C1: selecting an option, by Enter while Open on the option at
\* focusedOptionIndex or by a click on the option at index i of the filtered
\* list, sets query to that option's text, closes the dropdown and calls
\* onSelect exactly once with that text.
C1_SelectionCommitsOption ==
  [][ /\ (Mounted /\ isOpen /\ focusedOptionIndex \in 0..(Len(filteredOptions) - 1)
            /\ PressEnter)
        => /\ query' = filteredOptions[focusedOptionIndex + 1]
           /\ ~isOpen'
           /\ calls' = <<filteredOptions[focusedOptionIndex + 1]>>
      /\ ClickOption
        => /\ focusedOptionIndex' \in 0..(Len(filteredOptions) - 1)
           /\ query' = filteredOptions[focusedOptionIndex' + 1]
           /\ ~isOpen'
           /\ calls' = <<filteredOptions[focusedOptionIndex' + 1]>> ]_vars

\* Enter, pressed while the dropdown was open on a typed query, selected an
\* option.
C1_Witness ==
  /\ Mounted /\ lastEvent.name = "Enter" /\ lastEvent.wasOpen /\ lastEvent.hadQuery
  /\ ~isOpen /\ query \in OptionSet /\ calls = <<query>>

\* C2: whenever the dropdown is open, 0 <= focusedOptionIndex <
\* max(1, len(filteredOptions)).
C2_FocusedIndexInRange ==
  (Mounted /\ isOpen) =>
    /\ 0 <= focusedOptionIndex
    /\ focusedOptionIndex <
         (IF Len(filteredOptions) > 1 THEN Len(filteredOptions) ELSE 1)

\* C3: from Open, Escape or a click outside the input and the panel closes
\* the dropdown, empties query and does not call onSelect.
C3_DismissFromOpen ==
  [][ (Mounted /\ isOpen /\ (PressEscape \/ ClickOutside))
        => (~isOpen' /\ query' = <<>> /\ calls' = <<>>) ]_vars

\* An outside click found the dropdown open with a non-empty query.
C3_Witness ==
  /\ Mounted /\ lastEvent.name = "clickOutside"
  /\ lastEvent.wasOpen /\ lastEvent.hadQuery
  /\ ~isOpen /\ query = <<>> /\ calls = <<>>

\* C4 as claimed: in every state of a mounted widget, open or closed (the
\* query being any string, such as one left by a selection), Escape or an
\* outside click leaves query empty and the dropdown closed, and does not
\* call onSelect.
C4_DismissAlwaysClears ==
  [][ (Mounted /\ query # Undefined /\ (PressEscape \/ ClickOutside))
        => (~isOpen' /\ query' = <<>> /\ calls' = <<>>) ]_vars

\* C4 as amended: Escape in every state of a mounted widget, and an outside
\* click while open, leave query empty and the dropdown closed; an outside
\* click while closed leaves query and isOpen as they were; none calls onSelect.
C4_DismissAmended ==
  [][ /\ (Mounted /\ (PressEscape \/ (ClickOutside /\ isOpen)))
        => (~isOpen' /\ query' = <<>> /\ calls' = <<>>)
      /\ (Mounted /\ ClickOutside /\ ~isOpen)
        => (~isOpen' /\ query' = query /\ calls' = <<>>) ]_vars

\* Escape found the dropdown closed with a non-empty query.
C4_Witness ==
  /\ Mounted /\ lastEvent.name = "Escape"
  /\ ~lastEvent.wasOpen /\ lastEvent.hadQuery
  /\ ~isOpen /\ query = <<>> /\ calls = <<>>

\* C5: when the dropdown is open on a non-empty query that matches no option,
\* Enter changes neither query, isOpen nor focusedOptionIndex and does not
\* call onSelect.
C5_EnterOnNoMatchDoesNothing ==
  [][ (Mounted /\ isOpen /\ query # <<>> /\ filteredOptions = <<>> /\ PressEnter)
        => (UNCHANGED <<query, isOpen, focusedOptionIndex>> /\ calls' = <<>>) ]_vars

\* The normalized form of the claims: the characters of s that are not
\* whitespace, in order, each case-folded.
FoldedChar(c) == CASE c = "A" -> "a" [] c = "B" -> "b" [] OTHER -> c

RECURSIVE NormalizedForm(_)
NormalizedForm(s) ==
  IF s = <<>> THEN <<>>
  ELSE IF Head(s) = " " THEN NormalizedForm(Tail(s))
  ELSE <<FoldedChar(Head(s))>> \o NormalizedForm(Tail(s))

Contains(s, t) ==
  \E k \in 0..Len(s) :
    /\ k + Len(t) <= Len(s)
    /\ \A j \in 1..Len(t) : s[k + j] = t[j]

MatchingIndices ==
  {i \in DOMAIN options :
     Contains(NormalizedForm(options[i]), NormalizedForm(query))}

\* The j-th matching index of options, counted from 1.
NthMatching(j) ==
  CHOOSE i \in MatchingIndices :
    Cardinality({k \in MatchingIndices : k <= i}) = j

\* C6: filteredOptions is options unchanged when query is empty, and
\* otherwise the subsequence of options (order and duplicates kept) of
\* exactly the elements whose normalized form contains the normalized query;
\* a query of whitespace only yields all of options.
C6_FilterIsMatchingSubsequence ==
  /\ query = <<>> => filteredOptions = options
  /\ query # <<>> =>
       /\ Len(filteredOptions) = Cardinality(MatchingIndices)
       /\ \A j \in 1..Len(filteredOptions) :
            filteredOptions[j] = options[NthMatching(j)]
  /\ (\A i \in DOMAIN query : query[i] = " ") => filteredOptions = options

\* A query in another case than the option it matches kept one of two
\* options and dropped the other.
C6_Witness ==
  /\ lastEvent.name = "filter"
  /\ Len(options) = 2 /\ Len(filteredOptions) = 1
  /\ \E i \in DOMAIN query : query[i] = "A"
  /\ \E i \in DOMAIN query : query[i] = " "
  /\ filteredOptions[1] = <<"a", " ", "b">>

\* C7: onSelect is called only by a confirmed selection (Enter while open,
\* or a click on a listed option) and at most once per event; no other event
\* (typing, arrows, Escape, outside click, input click, focus, Enter while
\* closed, re-render, mount, unmount) calls it.
C7_OnSelectOnlyOnSelection ==
  [][ /\ Len(calls') <= 1
      /\ calls' # <<>> =>
           (Mounted /\ isOpen /\ lastEvent'.name \in {"Enter", "clickOption"}) ]_vars

\* Enter pressed again after a selection had closed the dropdown.
C7_Witness ==
  /\ Mounted /\ lastEvent.name = "Enter"
  /\ ~lastEvent.wasOpen /\ lastEvent.hadQuery
  /\ query \in OptionSet /\ calls = <<>>

\* C8: while disabled, the dropdown never opens, query stays empty and
\* onSelect is never called.
C8_DisabledSuppresses ==
  disabled => (~isOpen /\ query = <<>> /\ calls = <<>>)

\* The disabled input was clicked.
C8_Witness ==
  disabled /\ Mounted /\ lastEvent.name = "clickInput" /\ ~isOpen

\* C9 as claimed: from Closed, when not disabled, the input gaining focus and
\* the input being clicked each open the dropdown.
C9_FocusOrClickOpens ==
  [][ (Mounted /\ ~disabled /\ ~isOpen /\ (FocusInput \/ ClickInput))
        => isOpen' ]_vars

\* C9 as amended: from Closed, when not disabled, a click on the input opens
\* the dropdown; the input gaining focus without a click leaves it closed.
C9_ClickOpensFocusDoesNot ==
  [][ /\ (Mounted /\ ~disabled /\ ~isOpen /\ ClickInput) => isOpen'
      /\ (Mounted /\ ~disabled /\ ~isOpen /\ FocusInput) => ~isOpen' ]_vars

\* A click on the input found the dropdown closed.
C9_Witness ==
  /\ Mounted /\ ~disabled /\ lastEvent.name = "clickInput"
  /\ ~lastEvent.wasOpen /\ isOpen

ExpectedListeners ==
  << listenerOf("click", "handleClickOutside", Current),
     listenerOf("keydown", "handleEscapeKey", Current),
     listenerOf("keydown", "handleKeyDown", Current) >>

\* C10: while the component is mounted exactly one instance of each of the
\* three window listeners is registered, and it holds the current isOpen,
\* focusedOptionIndex and filteredOptions; when it is not mounted none is
\* registered, and no event changes the state or calls onSelect.
C10_ListenersFollowMount ==
  /\ [](Mounted => listeners = ExpectedListeners)
  /\ [](~Mounted => listeners = <<>>)
  /\ [][ (~Mounted /\ phase' # "mounted")
           => (UNCHANGED <<query, isOpen, focusedOptionIndex>> /\ calls' = <<>>) ]_vars

\* Enter was pressed after the component was unmounted with the dropdown open.
C10_Witness ==
  /\ phase = "unmounted" /\ lastEvent.name = "Enter" /\ lastEvent.wasOpen
  /\ listeners = <<>> /\ calls = <<>>

\* C11: after every transition of the mounted widget that changes query or
\* flips isOpen, focusedOptionIndex = 0.
C11_FocusedIndexResetOnChange ==
  [][ (Mounted /\ phase' = "mounted" /\ (query' # query \/ isOpen' # isOpen))
        => focusedOptionIndex' = 0 ]_vars

\* C12: while open, ArrowDown adds 1 to focusedOptionIndex only if it is
\* below len(filteredOptions) - 1 and ArrowUp subtracts 1 only if it is above
\* 0; otherwise the index is unchanged (no wrapping).  The arrows never change
\* query or isOpen and never call onSelect, and change nothing while closed.
C12_ArrowsClamp ==
  [][ /\ (Mounted /\ PressArrowDown)
        => /\ focusedOptionIndex' =
                IF isOpen /\ focusedOptionIndex < Len(filteredOptions) - 1
                THEN focusedOptionIndex + 1 ELSE focusedOptionIndex
           /\ UNCHANGED <<query, isOpen>> /\ calls' = <<>>
      /\ (Mounted /\ PressArrowUp)
        => /\ focusedOptionIndex' =
                IF isOpen /\ focusedOptionIndex > 0
                THEN focusedOptionIndex - 1 ELSE focusedOptionIndex
           /\ UNCHANGED <<query, isOpen>> /\ calls' = <<>> ]_vars

\* ArrowDown left the focus on the last entry of an open list of several.
C12_Witness ==
  /\ Mounted /\ lastEvent.name = "ArrowDown" /\ lastEvent.wasOpen /\ isOpen
  /\ Len(filteredOptions) >= 2
  /\ focusedOptionIndex = Len(filteredOptions) - 1

\* C13: a click on the input while open closes the dropdown and resets
\* focusedOptionIndex to 0, keeps query and does not call onSelect, whether
\* the window click listener runs before or after the panel is removed.
C13_InputClickClosesKeepsQuery ==
  [][ (Mounted /\ isOpen /\ ClickInput)
        => (~isOpen' /\ focusedOptionIndex' = 0 /\ query' = query
            /\ calls' = <<>>) ]_vars

\* A click on the input found the dropdown open on a non-empty query.
C13_Witness ==
  /\ Mounted /\ lastEvent.name = "clickInput"
  /\ lastEvent.wasOpen /\ lastEvent.hadQuery
  /\ ~isOpen /\ query # <<>> /\ focusedOptionIndex = 0

\* The filtered list of the claims for option list opts and query q.
MatchingIndicesOf(opts, q) ==
  {i \in DOMAIN opts : Contains(NormalizedForm(opts[i]), NormalizedForm(q))}

MatchingSubsequence(opts, q) ==
  LET M == MatchingIndicesOf(opts, q)
  IN  [j \in 1..Cardinality(M) |->
         opts[CHOOSE i \in M : Cardinality({k \in M : k <= i}) = j]]

\* C14: after typing any text into the enabled input, open or closed
\* beforehand, the dropdown is open, query is the typed text, filteredOptions
\* is the filtered list of that query and focusedOptionIndex = 0; typing does
\* not call onSelect.
C14_TypingOpensAndFilters ==
  [][ (Mounted /\ lastEvent'.name = "type")
        => /\ isOpen' /\ query' = lastEvent'.typed /\ focusedOptionIndex' = 0
           /\ filteredOptions' =
                (IF query' = <<>> THEN options
                 ELSE MatchingSubsequence(options, query'))
           /\ calls' = <<>> /\ phase' = "mounted" ]_vars

\* Text was typed into a closed widget that held the text of a selection.
C14_Witness ==
  /\ Mounted /\ lastEvent.name = "type"
  /\ ~lastEvent.wasOpen /\ lastEvent.hadQuery
  /\ isOpen /\ query # <<>> /\ focusedOptionIndex = 0
  /\ Len(filteredOptions) < Len(options)

\* C15: the notfound text is shown exactly when the dropdown is open, query
\* is non-empty and filteredOptions is empty; in every other open state the
\* entries of filteredOptions are listed in order (an empty list when options
\* and query are empty) and exactly the entry at focusedOptionIndex, if there
\* is one, is highlighted; nothing is shown while closed.
C15_RenderingRule ==
  /\ (Dropdown.kind = "notfound")
       <=> (Mounted /\ isOpen /\ query # <<>> /\ filteredOptions = <<>>)
  /\ (Dropdown.kind = "none") <=> ~(Mounted /\ isOpen)
  /\ (Dropdown.kind = "list") =>
       /\ Len(Dropdown.items) = Len(filteredOptions)
       /\ \A i \in 1..Len(filteredOptions) :
            /\ Dropdown.items[i].text = filteredOptions[i]
            /\ Dropdown.items[i].highlighted <=> (i = focusedOptionIndex + 1)

\* The dropdown is open on no option and no query: an empty list.
C15_Witness ==
  /\ Mounted /\ isOpen /\ options = <<>> /\ query = <<>>
  /\ Dropdown.kind = "list" /\ Len(Dropdown.items) = 0

\* C16: every value passed to onSelect is an element of options, and query is
\* always a string.
C16_OnSelectGetsOptions ==
  /\ \A i \in DOMAIN calls : calls[i] \in OptionSet
  /\ query # Undefined

\* C17: a click on a listed option, whether the window click listener runs
\* while the panel is still mounted or after it is removed (its ref null),
\* leaves query equal to the clicked option's text, not cleared, and has
\* called onSelect once with it.
C17_OptionClickIsNotOutside ==
  [][ \A index \in 0..(Len(filteredOptions) - 1), ref \in BOOLEAN :
        ClickOptionAt(index, ref)
          => /\ query' = filteredOptions[index + 1]
             /\ calls' = <<filteredOptions[index + 1]>>
             /\ ~isOpen' /\ phase' = "mounted" ]_vars

\* An option was clicked in a list filtered by a typed query.
C17_Witness ==
  /\ Mounted /\ lastEvent.name = "clickOption"
  /\ lastEvent.wasOpen /\ lastEvent.hadQuery
  /\ ~isOpen /\ query \in OptionSet /\ calls = <<query>>

====
